---- MODULE Spec2Model ----
\* Article visibility, filtering, pagination, tag synchronisation and
\* mutation rules of the blog backend (ArticlesService / ArticlesController),
\* and the comment threads of CommentService, modelled as a state machine
\* over the article, tag and comment tables.  Strings that are searched (title, content,
\* keyword) are sequences of one-character strings; an absent optional
\* parameter is "" (or <<>> for a keyword), which the code treats like
\* undefined because every optional parameter is tested for truthiness.
\* The audit columns createdById / updatedById / updatedAt are not part of
\* the modelled state.  rowSeq counts the article_tags rows inserted so far
\* and numbers them; reqs holds the calls that are suspended at an await; comments is the comment table, a row's id being its index;
\* images is the image table, files the paths present under uploads/, and
\* imageSeq counts the file names uploadArticleImage has drawn.
EXTENDS Integers, Sequences, FiniteSets, TLC

VARIABLES articles, articleTags, tags, clock, rowSeq, reqs, comments, images, files, imageSeq, last

vars == <<articles, articleTags, tags, clock, rowSeq, reqs, comments,
          images, files, imageSeq, last>>

\* ---------------------------------------------------------------- bounds
MaxArticles == 2
MaxRows == 22
MaxOrderRows == 3
MaxTagArticles == 1
MaxTagRows == 4
MaxSyncArticles == 1
MaxSlugArticles == 2
MaxComments == 4
MaxHardArticles == 1
MaxImages == 2
MaxRoles == 3
MaxThreadArticles == 2
MaxThreadComments == 3
MaxRaceSeed == 2

\* ------------------------------------------------------- program constants
MaxPageSize == 20
DefaultPageSize == 10

\* ------------------------------------------------------------ fixed data
USER == "USER"
AUTHOR == "AUTHOR"
ADMIN == "ADMIN"
SUPERADMIN == "SUPERADMIN"

UserRole == {USER, AUTHOR, ADMIN, SUPERADMIN}

\* role values a caller of the service can pass: the enum, a string outside
\* the enum, and no role at all
RoleInputs == UserRole \cup {"MODERATOR", "undefined"}

Users == {"u1", "u2"}


\* categories and tags are seeded catalogue rows: id |-> slug
CategorySlug == [c1 |-> "technology", c2 |-> "programming"]
CategoryIds == DOMAIN CategorySlug

TagSlug == [t1 |-> "nestjs", t2 |-> "typescript", t3 |-> "javascript"]
TagIds == DOMAIN TagSlug

\* the slug text "article-n"
Slug(n) == <<"article", n>>

Min(a, b) == IF a < b THEN a ELSE b

\* ------------------------------------------------------------- SQL text
\* LOWER() of SQLite: folds ASCII letters only
Lower(c) ==
  CASE c = "A" -> "a"
    [] c = "B" -> "b"
    [] OTHER -> c

LowerStr(s) == [i \in 1..Len(s) |-> Lower(s[i])]

\* x LIKE p with no ESCAPE clause: % matches any run, _ any one character
RECURSIVE LikeMatch(_, _)
LikeMatch(p, s) ==
  IF p = <<>> THEN s = <<>>
  ELSE IF Head(p) = "%"
    THEN LikeMatch(Tail(p), s) \/ (s # <<>> /\ LikeMatch(p, Tail(s)))
    ELSE s # <<>> /\ (Head(p) = "_" \/ Head(p) = Head(s))
                  /\ LikeMatch(Tail(p), Tail(s))

\* (LOWER(title) LIKE LOWER('%kw%') OR LOWER(content) LIKE LOWER('%kw%'))
KeywordMatches(a, keyword) ==
  LET pat == LowerStr(<<"%">> \o keyword \o <<"%">>)
  IN LikeMatch(pat, LowerStr(a.title)) \/ LikeMatch(pat, LowerStr(a.content))

\* ------------------------------------------------------ visibility policy
\* the WHERE clauses applyVisibilityRules adds, each as a predicate on a row
DeletedRule_AnyRole(a, requesterRole, includeDeleted) ==
  ~includeDeleted => a.isDeleted = FALSE

DeletedRule_AdminOnly(a, requesterRole, includeDeleted) ==
  IF requesterRole = ADMIN
    THEN (~includeDeleted => a.isDeleted = FALSE)
    ELSE a.isDeleted = FALSE

DeletedRule(a, requesterRole, includeDeleted) ==
  IF requesterRole = ADMIN \/ requesterRole = SUPERADMIN
    THEN (~includeDeleted => a.isDeleted = FALSE)
    ELSE a.isDeleted = FALSE

UserRule_OwnDrafts(a, requesterUserId) ==
  a.authorId = requesterUserId \/ a.isPublished = TRUE

UserRule(a, requesterUserId) == a.isPublished = TRUE

AuthorRule_PublishedOnly(a, requesterUserId) == a.isPublished = TRUE

AuthorRule(a, requesterUserId) ==
  IF requesterUserId # ""
    THEN (a.authorId = requesterUserId \/ a.isPublished = TRUE)
    ELSE a.isPublished = TRUE

DefaultRule_Open(a) == TRUE

DefaultRule(a) == a.isPublished = TRUE

ApplyVisibilityRules(a, requesterRole, requesterUserId, includeDeleted) ==
  /\ DeletedRule(a, requesterRole, includeDeleted)
  /\ CASE requesterRole = USER -> UserRule(a, requesterUserId)
       [] requesterRole = AUTHOR -> AuthorRule(a, requesterUserId)
       [] requesterRole = ADMIN \/ requesterRole = SUPERADMIN -> TRUE
       [] OTHER -> DefaultRule(a)

CanModifyArticle_AnyOwner(a, requesterRole, requesterUserId) ==
  requesterRole = ADMIN \/ requesterRole = SUPERADMIN \/ a.authorId = requesterUserId

CanModifyArticle(a, requesterRole, requesterUserId) ==
  IF requesterRole = ADMIN \/ requesterRole = SUPERADMIN THEN TRUE
  ELSE IF requesterRole = AUTHOR /\ a.authorId = requesterUserId THEN TRUE
  ELSE FALSE

\* ----------------------------------------------------------- the mapper
\* rows is the set of join rows the query loaded for the article
MapToArticleResponseDto(a, rows) ==
  [id |-> a.id, title |-> a.title, slug |-> a.slug, content |-> a.content,
   isPublished |-> a.isPublished, isDeleted |-> a.isDeleted,
   createdAt |-> a.createdAt, authorId |-> a.authorId,
   categorySlug |-> CategorySlug[a.categoryId],
   tags |-> {r.tagId : r \in {x \in rows : x.tagId \in DOMAIN tags}}]

JoinRows(id) == {r \in articleTags : r.articleId = id}

\* ------------------------------------------------------- paginated query
\* rows of S ordered by createdAt; the id query of a windowed select adds
\* the primary key, ascending, as the last sort key in either direction
RECURSIVE SortAsc(_)
SortAsc(S) ==
  IF S = {} THEN <<>>
  ELSE LET m == CHOOSE x \in S : \A y \in S :
                  \/ x.createdAt < y.createdAt
                  \/ (x.createdAt = y.createdAt /\ x.id <= y.id)
       IN <<m>> \o SortAsc(S \ {m})

RECURSIVE SortDesc(_)
SortDesc(S) ==
  IF S = {} THEN <<>>
  ELSE LET m == CHOOSE x \in S : \A y \in S :
                  \/ x.createdAt > y.createdAt
                  \/ (x.createdAt = y.createdAt /\ x.id <= y.id)
       IN <<m>> \o SortDesc(S \ {m})

OrderBy(S, isAscending) == IF isAscending THEN SortAsc(S) ELSE SortDesc(S)

Window_FromSkip(rows, skip, take) ==
  IF skip = 0 /\ take = 0 THEN rows
  ELSE LET off == IF skip < 0 THEN 0 ELSE skip
           lim == IF take <= 0 THEN Len(rows) ELSE take
       IN SubSeq(rows, IF off = 0 THEN 1 ELSE off, Min(off + lim, Len(rows)))

\* skip(skip).take(take) of a query with joins on SQLite: the window is
\* applied only when skip or take is non-zero; a negative LIMIT is no limit
\* and a negative OFFSET is offset 0
Window(rows, skip, take) ==
  IF skip = 0 /\ take = 0 THEN rows
  ELSE LET off == IF skip < 0 THEN 0 ELSE skip
           lim == IF take <= 0 THEN Len(rows) ELSE take
       IN SubSeq(rows, off + 1, Min(off + lim, Len(rows)))

\* the WHERE clause getPagedArticles assembles
MatchesQuery(a, p) ==
  /\ ApplyVisibilityRules(a, p.requesterRole, p.requesterUserId, p.includeDeleted)
  /\ (p.categorySlug # "" => CategorySlug[a.categoryId] = p.categorySlug)
  /\ (p.tagSlug # "" =>
        \E r \in JoinRows(a.id) : r.tagId \in DOMAIN tags
                                  /\ tags[r.tagId].slug = p.tagSlug)
  /\ (p.keyword # <<>> => KeywordMatches(a, p.keyword))

\* join rows that survive the WHERE clause and are loaded with the article
LoadedRows(a, p) ==
  IF p.tagSlug = "" THEN JoinRows(a.id)
  ELSE {r \in JoinRows(a.id) : r.tagId \in DOMAIN tags
                               /\ tags[r.tagId].slug = p.tagSlug}

ClampPageSize(requestedPageSize) == Min(requestedPageSize, MaxPageSize)

\* const skip = (page - 1) * pageSize
SkipOf(p) == (p.page - 1) * ClampPageSize(p.pageSize)

GetPagedArticlesResult(p) ==
  LET pageSize == ClampPageSize(p.pageSize)
      skip == SkipOf(p)
      matching == {articles[i] : i \in {j \in DOMAIN articles : MatchesQuery(articles[j], p)}}
      totalCount == Cardinality(matching)
      found == Window(OrderBy(matching, p.isAscending), skip, pageSize)
  IN [success |-> TRUE, error |-> "",
      items |-> [k \in 1..Len(found) |-> MapToArticleResponseDto(found[k], LoadedRows(found[k], p))],
      currentPage |-> p.page, pageSize |-> pageSize,
      totalCount |-> totalCount, isAscending |-> p.isAscending]

\* ------------------------------------------------------------ tag helpers
RECURSIVE Dedup(_)
Dedup(s) ==
  IF s = <<>> THEN <<>>
  ELSE LET rest == Dedup(SubSeq(s, 1, Len(s) - 1))
           x == s[Len(s)]
       IN IF \E i \in 1..Len(rest) : rest[i] = x THEN rest ELSE Append(rest, x)

\* Array.from(new Set(tagIds.filter(Boolean)))
NormalizeTagIds(tagIds) == Dedup(SelectSeq(tagIds, LAMBDA t : t # ""))

Range(s) == {s[i] : i \in 1..Len(s)}

ValidateTagIds_AnyRow(tagIds) ==
  \A t \in Range(tagIds) : t \in DOMAIN tags

\* every id must be a tag row with isDeleted = false
ValidateTagIds(tagIds) ==
  \A t \in Range(tagIds) : t \in DOMAIN tags /\ ~tags[t].isDeleted

\* syncArticleTags, on the rows `existing` that its find() returned
ToAdd_All(existing, tagIds) == tagIds

ToAdd(existing, tagIds) ==
  SelectSeq(tagIds, LAMBDA t : t \notin {r.tagId : r \in existing})

ToRemove_All(existing, tagIds) == existing

ToRemove(existing, tagIds) == {r \in existing : r.tagId \notin Range(tagIds)}

\* the rows create() builds for toAdd; the n-th gets row id seq + n
Additions(articleId, toAdd, seq) ==
  {[id |-> seq + n, articleId |-> articleId, tagId |-> toAdd[n]] : n \in 1..Len(toAdd)}

\* save(additions) breaks the unique index on (articleId, tagId)
BreaksUniqueIndex(rows, additions) ==
  \/ \E r \in rows, x \in additions : r.articleId = x.articleId /\ r.tagId = x.tagId
  \/ \E x, y \in additions : x.id # y.id /\ x.articleId = y.articleId /\ x.tagId = y.tagId

\* syncArticleTags(articleId, tagIds) run without interruption: the rows
\* left behind, the writes made, and whether save() threw
SyncArticleTags(rows, articleId, tagIds, seq) ==
  LET existing == {r \in rows : r.articleId = articleId}
      toAdd == ToAdd(existing, tagIds)
      toRemove == ToRemove(existing, tagIds)
      kept == rows \ toRemove
      additions == Additions(articleId, toAdd, seq)
      threw == BreaksUniqueIndex(kept, additions)
  IN [rows |-> IF threw THEN kept ELSE kept \cup additions,
      removed |-> toRemove,
      added |-> IF threw THEN {} ELSE additions,
      threw |-> threw]

SlugTaken_LiveOnly(slug, exceptId) ==
  \E i \in DOMAIN articles :
    i # exceptId /\ articles[i].slug = slug /\ ~articles[i].isDeleted

\* the unique index on articles.slug: any other row, deleted or not
SlugTaken(slug, exceptId) ==
  \E i \in DOMAIN articles : i # exceptId /\ articles[i].slug = slug

\* ---------------------------------------------------------- error texts
NotFound == "Article not found"
NotFoundOrDenied == "Article not found or access denied"
AccessDenied == "Access denied"
AlreadyDeleted == "Article is already deleted"
InvalidTags == "Invalid tag IDs"
InvalidCategory == "Invalid category ID"
InvalidAuthor == "Invalid author"
SlugExists == "Article with this slug already exists"
SlugInUse == "Article with slug already exists. Please use a different slug."

Ok == [success |-> TRUE, error |-> ""]
Fail(msg) == [success |-> FALSE, error |-> msg]

\* --------------------------------------------------------- comment tree
\* parentCommentId of a top-level comment (null)
NullId == 0

Redacted == "[deleted]"

\* the role getRequesterRoleByUserId finds for each user
RoleOfUser == [u1 |-> USER, u2 |-> ADMIN]

IsAdminRole(role) == role = ADMIN \/ role = SUPERADMIN

IsRoot_NullOnly(parentId, list) == parentId = NullId

\* !parentId, or nodeById has no entry for parentId
IsRoot(parentId, list) ==
  parentId = NullId \/ ~\E j \in 1..Len(list) : list[j].id = parentId

Push_Front(arr, node) == <<node>> \o arr

\* arr.push(node)
Push(arr, node) == Append(arr, node)

\* the second loop of buildCommentTree from entry k on; acc holds roots and
\* the children array of every node, nodes being named by their ids
RECURSIVE Attach(_, _, _)
Attach(list, k, acc) ==
  IF k > Len(list) THEN acc
  ELSE LET id == list[k].id
           parentId == list[k].parentCommentId
       IN IF IsRoot(parentId, list)
            THEN Attach(list, k + 1, [acc EXCEPT !.roots = Push(@, id)])
            ELSE Attach(list, k + 1, [acc EXCEPT !.children[parentId] = Push(@, id)])

\* buildCommentTree(comments) for rows with distinct ids (the primary key),
\* so that the Map keeps the order of the list
BuildCommentTree(list) ==
  Attach(list, 1, [roots |-> <<>>,
                   children |-> [id \in {list[j].id : j \in 1..Len(list)} |-> <<>>]])

\* ------------------------------------------------------- role resolution
\* user?.roles of a request: undefined, or the array of role names the
\* token carries
NoRoles == [defined |-> FALSE]
RolesOf(list) == [defined |-> TRUE, list |-> list]

\* roles?.includes(name)
Includes(roles, name) ==
  roles.defined /\ \E k \in 1..Len(roles.list) : roles.list[k] = name

resolveRequesterRole_First(roles) ==
  IF roles.defined /\ roles.list # <<>> /\ roles.list[1] \in UserRole
    THEN roles.list[1] ELSE USER

\* ArticlesController.resolveRequesterRole (CommentController has the same)
resolveRequesterRole(roles) ==
  IF Includes(roles, SUPERADMIN) THEN SUPERADMIN
  ELSE IF Includes(roles, ADMIN) THEN ADMIN
  ELSE IF Includes(roles, AUTHOR) THEN AUTHOR
  ELSE USER

\* the role ArticlesController.getArticles computes in line
GetArticlesRequesterRole(roles) ==
  IF Includes(roles, ADMIN) \/ Includes(roles, SUPERADMIN) THEN ADMIN
  ELSE IF Includes(roles, AUTHOR) THEN AUTHOR
  ELSE USER

\* CommentService.getRequesterRoleByUserId for a user whose userRoles name
\* roleNames; no roles at all stands for a user that is missing or deleted
getRequesterRoleByUserId(roleNames) ==
  IF ~roleNames.defined THEN USER
  ELSE IF Includes(roleNames, SUPERADMIN) THEN SUPERADMIN
  ELSE IF Includes(roleNames, ADMIN) THEN ADMIN
  ELSE IF Includes(roleNames, AUTHOR) THEN AUTHOR
  ELSE USER

\* ------------------------------------------------------------------ Init
\* the two slots for updateArticle calls in flight
RequestIds == {"r1", "r2"}
Idle == [pc |-> "idle"]

Init ==
  /\ articles = <<>>
  /\ articleTags = {}
  /\ tags = [t \in TagIds |-> [slug |-> TagSlug[t], isDeleted |-> FALSE]]
  /\ clock = 1
  /\ rowSeq = 0
  /\ reqs = [r \in RequestIds |-> Idle]
  /\ comments = <<>>
  /\ images = {}
  /\ files = {}
  /\ imageSeq = 0
  /\ last = [op |-> "init"]

\* ------------------------------------------------------------- mutations
\* createArticle(dto, authorId) run at time now: the new row gets the next id
\* and the store's current time as createdAt (@CreateDateColumn).  The
\* article row is saved before the tags are synchronised, and an exception
\* of either write is answered from the catch block.
createArticleAt(dto, authorId, now) ==
  LET normalizedTagIds == NormalizeTagIds(dto.tagIds)
      id == clock
      row == [id |-> id, title |-> dto.title, slug |-> dto.slug,
              content |-> dto.content, authorId |-> authorId,
              categoryId |-> dto.categoryId, isPublished |-> dto.isPublished,
              isDeleted |-> FALSE, createdAt |-> now]
      pre == IF authorId \notin Users THEN Fail(InvalidAuthor)
             ELSE IF dto.categoryId \notin CategoryIds THEN Fail(InvalidCategory)
             ELSE IF ~ValidateTagIds(normalizedTagIds) THEN Fail(InvalidTags)
             ELSE IF SlugTaken(dto.slug, 0) THEN Fail(SlugInUse)
             ELSE Ok
      sync == IF normalizedTagIds # <<>>
                THEN SyncArticleTags(articleTags, id, normalizedTagIds, rowSeq)
                ELSE [rows |-> articleTags, removed |-> {}, added |-> {}, threw |-> FALSE]
      res == IF pre.success /\ sync.threw THEN Fail(SlugInUse) ELSE pre
  IN /\ last' = [op |-> "createArticle", dto |-> dto, userId |-> authorId,
                 success |-> res.success, error |-> res.error,
                 added |-> IF pre.success THEN sync.added ELSE {},
                 removed |-> IF pre.success THEN sync.removed ELSE {}]
     /\ IF pre.success
          THEN /\ articles' = [i \in DOMAIN articles \cup {id} |->
                                 IF i = id THEN row ELSE articles[i]]
               /\ articleTags' = sync.rows
               /\ rowSeq' = rowSeq + Cardinality(sync.added)
               /\ clock' = clock + 1
          ELSE UNCHANGED <<articles, articleTags, rowSeq, clock>>
     /\ UNCHANGED <<tags, reqs, comments, images, files, imageSeq>>

\* a call in a second of its own
createArticle(dto, authorId) == createArticleAt(dto, authorId, clock)

\* Object.assign(article, payload): the fields the dto carries, tagIds apart
AssignPayload(a, dto) ==
  [f \in DOMAIN a |-> IF f \in DOMAIN dto THEN dto[f] ELSE a[f]]

\* the checks of updateArticle up to the save of the article row
UpdateChecks(articleId, dto, requesterRole, requesterUserId) ==
  LET hasTags == "tagIds" \in DOMAIN dto
      normalizedTagIds == IF hasTags THEN NormalizeTagIds(dto.tagIds) ELSE <<>>
  IN IF articleId \notin DOMAIN articles THEN Fail(NotFound)
     ELSE IF ~CanModifyArticle(articles[articleId], requesterRole, requesterUserId)
       THEN Fail(AccessDenied)
     ELSE IF hasTags /\ ~ValidateTagIds(normalizedTagIds) THEN Fail(InvalidTags)
     ELSE IF SlugTaken(AssignPayload(articles[articleId], dto).slug, articleId)
       THEN Fail(SlugExists)
     ELSE Ok

\* updateArticle run without interruption
updateArticle(articleId, dto, requesterRole, requesterUserId) ==
  LET hasTags == "tagIds" \in DOMAIN dto
      normalizedTagIds == IF hasTags THEN NormalizeTagIds(dto.tagIds) ELSE <<>>
      pre == UpdateChecks(articleId, dto, requesterRole, requesterUserId)
      sync == IF hasTags
                THEN SyncArticleTags(articleTags, articleId, normalizedTagIds, rowSeq)
                ELSE [rows |-> articleTags, removed |-> {}, added |-> {}, threw |-> FALSE]
      res == IF pre.success /\ sync.threw THEN Fail(SlugExists) ELSE pre
  IN /\ last' = [op |-> "updateArticle", articleId |-> articleId, dto |-> dto,
                 role |-> requesterRole, userId |-> requesterUserId,
                 success |-> res.success, error |-> res.error,
                 added |-> IF pre.success THEN sync.added ELSE {},
                 removed |-> IF pre.success THEN sync.removed ELSE {}]
     /\ IF pre.success
          THEN /\ articles' = [articles EXCEPT ![articleId] = AssignPayload(articles[articleId], dto)]
               /\ articleTags' = sync.rows
               /\ rowSeq' = rowSeq + Cardinality(sync.added)
          ELSE UNCHANGED <<articles, articleTags, rowSeq>>
     /\ UNCHANGED <<tags, clock, reqs, comments, images, files, imageSeq>>

softDeleteArticle(articleId, requesterRole, requesterUserId) ==
  LET found == articleId \in DOMAIN articles
      res == IF ~found THEN Fail(NotFound)
             ELSE IF articles[articleId].isDeleted THEN Fail(AlreadyDeleted)
             ELSE IF ~CanModifyArticle(articles[articleId], requesterRole, requesterUserId)
               THEN Fail(AccessDenied)
             ELSE Ok
  IN /\ last' = [op |-> "softDeleteArticle", articleId |-> articleId,
                 role |-> requesterRole, userId |-> requesterUserId,
                 success |-> res.success, error |-> res.error]
     /\ articles' = IF res.success
                      THEN [articles EXCEPT ![articleId].isDeleted = TRUE]
                      ELSE articles
     /\ UNCHANGED <<articleTags, tags, clock, rowSeq, reqs, comments, images, files, imageSeq>>

restoreArticle(articleId, requesterRole, requesterUserId) ==
  LET found == articleId \in DOMAIN articles
      res == IF ~found THEN Fail(NotFound)
             ELSE IF ~articles[articleId].isDeleted THEN Ok
             ELSE IF ~CanModifyArticle(articles[articleId], requesterRole, requesterUserId)
               THEN Fail(AccessDenied)
             ELSE Ok
  IN /\ last' = [op |-> "restoreArticle", articleId |-> articleId,
                 role |-> requesterRole, userId |-> requesterUserId,
                 success |-> res.success, error |-> res.error]
     /\ articles' = IF res.success
                      THEN [articles EXCEPT ![articleId].isDeleted = FALSE]
                      ELSE articles
     /\ UNCHANGED <<articleTags, tags, clock, rowSeq, reqs, comments, images, files, imageSeq>>

\* ---------------------------------------- updateArticle, await by await
\* The handler is not wrapped in a transaction, so another call can run
\* between two of its awaits.  A call in slot r runs its checks and saves the
\* article row, then syncArticleTags reads the rows, removes, and saves.
updateBegin(r, articleId, dto, requesterRole, requesterUserId) ==
  LET pre == UpdateChecks(articleId, dto, requesterRole, requesterUserId)
      hasTags == "tagIds" \in DOMAIN dto
      call == [articleId |-> articleId, dto |-> dto, role |-> requesterRole,
               userId |-> requesterUserId]
  IN /\ reqs[r].pc = "idle"
     /\ articles' = IF pre.success
                      THEN [articles EXCEPT ![articleId] = AssignPayload(articles[articleId], dto)]
                      ELSE articles
     /\ reqs' = [reqs EXCEPT ![r] =
                   IF pre.success /\ hasTags
                     THEN [pc |-> "find", call |-> call,
                           tagIds |-> NormalizeTagIds(dto.tagIds)]
                     ELSE [pc |-> "done", call |-> call, synced |-> FALSE,
                           success |-> pre.success, error |-> pre.error]]
     /\ last' = IF pre.success /\ hasTags THEN [op |-> "updateArticle.save", req |-> r]
                ELSE [op |-> "updateArticle", articleId |-> articleId, dto |-> dto,
                      role |-> requesterRole, userId |-> requesterUserId,
                      success |-> pre.success, error |-> pre.error,
                      added |-> {}, removed |-> {}]
     /\ UNCHANGED <<articleTags, tags, clock, rowSeq, comments, images, files, imageSeq>>

\* const existing = await this.articleTagRepository.find({ where: { articleId } })
syncFind(r) ==
  /\ reqs[r].pc = "find"
  /\ reqs' = [reqs EXCEPT ![r] =
                [pc |-> "remove", call |-> reqs[r].call, tagIds |-> reqs[r].tagIds,
                 existing |-> {x \in articleTags : x.articleId = reqs[r].call.articleId}]]
  /\ last' = [op |-> "syncArticleTags.find", req |-> r]
  /\ UNCHANGED <<articles, articleTags, tags, clock, rowSeq, comments, images, files, imageSeq>>

\* await this.articleTagRepository.remove(toRemove): deletes by row id
syncRemove(r) ==
  /\ reqs[r].pc = "remove"
  /\ articleTags' = articleTags \ ToRemove(reqs[r].existing, reqs[r].tagIds)
  /\ reqs' = [reqs EXCEPT ![r].pc = "save"]
  /\ last' = [op |-> "syncArticleTags.remove", req |-> r]
  /\ UNCHANGED <<articles, tags, clock, rowSeq, comments, images, files, imageSeq>>

\* await this.articleTagRepository.save(additions), then the answer; an
\* exception of save() is answered from the catch block of updateArticle
syncSave(r) ==
  LET c == reqs[r].call
      additions == Additions(c.articleId, ToAdd(reqs[r].existing, reqs[r].tagIds), rowSeq)
      threw == BreaksUniqueIndex(articleTags, additions)
      res == IF threw THEN Fail(SlugExists) ELSE Ok
  IN /\ reqs[r].pc = "save"
     /\ articleTags' = IF threw THEN articleTags ELSE articleTags \cup additions
     /\ rowSeq' = IF threw THEN rowSeq ELSE rowSeq + Cardinality(additions)
     /\ reqs' = [reqs EXCEPT ![r] =
                   [pc |-> "done", call |-> c, synced |-> TRUE,
                    success |-> res.success, error |-> res.error]]
     /\ last' = [op |-> "updateArticle", articleId |-> c.articleId, dto |-> c.dto,
                 role |-> c.role, userId |-> c.userId,
                 success |-> res.success, error |-> res.error,
                 added |-> IF threw THEN {} ELSE additions,
                 removed |-> ToRemove(reqs[r].existing, reqs[r].tagIds)]
     /\ UNCHANGED <<articles, tags, clock, comments, images, files, imageSeq>>

\* ------------------------------------------------------------------ images
UploadDenied == "Access denied: You cannot upload images for this article"
NoFileUploaded == "No file uploaded"
InvalidUpload == "Invalid file upload"
UnsupportedType == "Unsupported file type"
FileTooLarge == "File too large. Max size is 5MB"
HardDeleteDenied == "Access denied: Only admins can permanently delete articles"
HardDeleteFailed == "Failed to permanently delete article"

\* the upload that carries no file
NoFile == [present |-> FALSE]

allowedTypes == {"image/jpeg", "image/png", "image/webp", "image/gif"}
maxSize == 5 * 1024 * 1024

\* the paths buildImageFilePaths(image) lists: publicUrl, filePath and
\* fileName of a row written by uploadArticleImage all resolve to
\* uploads/articles/<articleId>/<fileName>, and the Set keeps it once
BuildImageFilePaths(image) == {<<image.articleId, image.fileName>>}

\* uploadArticleImage: the file is written under a fresh name, then the
\* image row is saved
uploadArticleImage(articleId, file, requesterRole, requesterUserId) ==
  LET fileName == imageSeq + 1
      image == [id |-> imageSeq + 1, articleId |-> articleId, fileName |-> fileName]
      res == IF articleId \notin DOMAIN articles \/ articles[articleId].isDeleted
               THEN Fail(NotFound)
             ELSE IF ~CanModifyArticle(articles[articleId], requesterRole, requesterUserId)
               THEN Fail(UploadDenied)
             ELSE IF ~file.present THEN Fail(NoFileUploaded)
             ELSE IF ~file.buffer THEN Fail(InvalidUpload)
             ELSE IF file.mimetype \notin allowedTypes THEN Fail(UnsupportedType)
             ELSE IF file.size > maxSize THEN Fail(FileTooLarge)
             ELSE Ok
  IN /\ last' = [op |-> "uploadArticleImage", articleId |-> articleId,
                 role |-> requesterRole, userId |-> requesterUserId,
                 success |-> res.success, error |-> res.error]
     /\ IF res.success
          THEN /\ files' = files \cup BuildImageFilePaths(image)
               /\ images' = images \cup {image}
               /\ imageSeq' = imageSeq + 1
          ELSE UNCHANGED <<images, files, imageSeq>>
     /\ UNCHANGED <<articles, articleTags, tags, clock, rowSeq, reqs, comments>>

CanHardDelete_Authors(requesterRole) ==
  requesterRole = ADMIN \/ requesterRole = SUPERADMIN \/ requesterRole = AUTHOR

\* the negation of the guard `requesterRole !== ADMIN && requesterRole !== SUPERADMIN`
CanHardDelete(requesterRole) == requesterRole = ADMIN \/ requesterRole = SUPERADMIN

\* the answer of a hardDeleteArticle call
HardDeleteAnswer(call, res) ==
  [op |-> "hardDeleteArticle", articleId |-> call.articleId, role |-> call.role,
   success |-> res.success, error |-> res.error]

\* hardDeleteArticle, await by await.  The role check and findOne(article):
hardDeleteBegin(r, articleId, requesterRole) ==
  LET call == [articleId |-> articleId, role |-> requesterRole]
      res == IF ~CanHardDelete(requesterRole) THEN Fail(HardDeleteDenied)
             ELSE IF articleId \notin DOMAIN articles THEN Fail(NotFound)
             ELSE Ok
  IN /\ reqs[r].pc = "idle"
     /\ reqs' = [reqs EXCEPT ![r] =
                   IF res.success THEN [pc |-> "hardDelete.find", call |-> call]
                   ELSE [pc |-> "done", call |-> call,
                         success |-> FALSE, error |-> res.error]]
     /\ last' = IF res.success THEN [op |-> "hardDeleteArticle.findOne", req |-> r]
                ELSE HardDeleteAnswer(call, res)
     /\ UNCHANGED <<articles, articleTags, tags, clock, rowSeq, comments,
                    images, files, imageSeq>>

\* const images = await this.imageRepository.find({ where: { articleId } })
hardDeleteFindImages(r) ==
  /\ reqs[r].pc = "hardDelete.find"
  /\ reqs' = [reqs EXCEPT ![r] =
                [pc |-> "hardDelete.unlink", call |-> reqs[r].call,
                 images |-> {i \in images : i.articleId = reqs[r].call.articleId}]]
  /\ last' = [op |-> "hardDeleteArticle.find", req |-> r]
  /\ UNCHANGED <<articles, articleTags, tags, clock, rowSeq, comments,
                 images, files, imageSeq>>

\* the loop over the images: deleteFileIfExists unlinks every listed path
\* and swallows the error of a path that is not there
hardDeleteUnlink(r) ==
  /\ reqs[r].pc = "hardDelete.unlink"
  /\ files' = files \ UNION {BuildImageFilePaths(i) : i \in reqs[r].images}
  /\ reqs' = [reqs EXCEPT ![r].pc = "hardDelete.remove"]
  /\ last' = [op |-> "hardDeleteArticle.unlink", req |-> r]
  /\ UNCHANGED <<articles, articleTags, tags, clock, rowSeq, comments, images, imageSeq>>

\* await this.articleRepository.remove(article), then the answer.  The row
\* is deleted by id and its join rows, comments and image rows go with it
\* (onDelete: 'CASCADE'); when the statement throws, nothing is deleted and
\* the catch block answers.
hardDeleteRemove(r, threw) ==
  LET c == reqs[r].call
      res == IF threw THEN Fail(HardDeleteFailed) ELSE Ok
  IN /\ reqs[r].pc = "hardDelete.remove"
     /\ IF threw
          THEN UNCHANGED <<articles, articleTags, comments, images>>
          ELSE /\ articles' = [i \in DOMAIN articles \ {c.articleId} |-> articles[i]]
               /\ articleTags' = {x \in articleTags : x.articleId # c.articleId}
               /\ comments' = [i \in {j \in DOMAIN comments :
                                        comments[j].articleId # c.articleId}
                                 |-> comments[i]]
               /\ images' = {i \in images : i.articleId # c.articleId}
     /\ reqs' = [reqs EXCEPT ![r] =
                   [pc |-> "done", call |-> c,
                    success |-> res.success, error |-> res.error]]
     /\ last' = HardDeleteAnswer(c, res)
     /\ UNCHANGED <<tags, clock, rowSeq, files, imageSeq>>

\* TagsService.delete(id): soft delete of a tag; its join rows stay
TagNotFound == "Tag not found"

deleteTag(id) ==
  LET found == id \in DOMAIN tags /\ ~tags[id].isDeleted
  IN /\ last' = [op |-> "deleteTag", tagId |-> id, success |-> found,
                 error |-> IF found THEN "" ELSE TagNotFound]
     /\ tags' = IF found THEN [tags EXCEPT ![id].isDeleted = TRUE] ELSE tags
     /\ UNCHANGED <<articles, articleTags, clock, rowSeq, reqs, comments, images, files, imageSeq>>

\* ---------------------------------------------------------------- comments
CommentNotFound == "Comment not found"
ParentNotFound == "Parent comment not found"
ParentDeleted == "Cannot reply to a deleted comment"
NotPublished == "Article is not published"
CommentDenied == "You are not allowed to delete this comment"

ParentFound_AnyArticle(parentCommentId, articleId) == parentCommentId \in DOMAIN comments

\* findOne({ where: { id: parentCommentId, articleId } }) finds a row
ParentFound(parentCommentId, articleId) ==
  \E i \in DOMAIN comments : i = parentCommentId /\ comments[i].articleId = articleId

ParentIsDeleted_Never(parent) == FALSE

\* parent.isDeleted, of the row findOne({ id: parentCommentId, articleId }) loaded
ParentIsDeleted(parent) == parent.isDeleted

\* createComment(articleId, dto, userId) run at time now
createCommentAt(articleId, dto, userId, now) ==
  LET requesterRole == IF userId \in DOMAIN RoleOfUser THEN RoleOfUser[userId] ELSE USER
      parentCommentId == dto.parentCommentId
      id == Len(comments) + 1
      row == [id |-> id, articleId |-> articleId, userId |-> userId,
              parentCommentId |-> parentCommentId, content |-> dto.content,
              isDeleted |-> FALSE, createdAt |-> now]
      res == IF articleId \notin DOMAIN articles \/ articles[articleId].isDeleted
               THEN Fail(NotFound)
             ELSE IF ~IsAdminRole(requesterRole) /\ ~articles[articleId].isPublished
               THEN Fail(NotPublished)
             ELSE IF parentCommentId # NullId /\ ~ParentFound(parentCommentId, articleId)
               THEN Fail(ParentNotFound)
             ELSE IF parentCommentId # NullId /\ ParentIsDeleted(comments[parentCommentId])
               THEN Fail(ParentDeleted)
             ELSE Ok
  IN /\ last' = [op |-> "createComment", articleId |-> articleId, dto |-> dto,
                 userId |-> userId, success |-> res.success, error |-> res.error]
     /\ comments' = IF res.success THEN Append(comments, row) ELSE comments
     /\ UNCHANGED <<articles, articleTags, tags, clock, rowSeq, reqs, images, files, imageSeq>>

CommentIsDeleted == "Deleted comments cannot be updated"
UpdateDenied == "You are not allowed to update this comment"
ArticleIdFrozen == "Changing articleId is not allowed"
ParentFrozen == "Changing parentCommentId is not allowed"

\* updateComment(commentId, dto, userId, requesterRole); a field the dto
\* does not carry is undefined, and only the content is ever assigned
updateComment(commentId, dto, userId, requesterRole) ==
  LET found == commentId \in DOMAIN comments
      comment == comments[commentId]
      res == IF ~found THEN Fail(CommentNotFound)
             ELSE IF comment.isDeleted THEN Fail(CommentIsDeleted)
             ELSE IF ~(comment.userId = userId \/ IsAdminRole(requesterRole))
               THEN Fail(UpdateDenied)
             ELSE IF "articleId" \in DOMAIN dto /\ dto.articleId # comment.articleId
               THEN Fail(ArticleIdFrozen)
             ELSE IF "parentCommentId" \in DOMAIN dto
                     /\ dto.parentCommentId # comment.parentCommentId
               THEN Fail(ParentFrozen)
             ELSE Ok
  IN /\ last' = [op |-> "updateComment", commentId |-> commentId, dto |-> dto,
                 userId |-> userId, role |-> requesterRole,
                 success |-> res.success, error |-> res.error]
     /\ comments' = IF res.success /\ "content" \in DOMAIN dto
                      THEN [comments EXCEPT ![commentId].content = dto.content]
                      ELSE comments
     /\ UNCHANGED <<articles, articleTags, tags, clock, rowSeq, reqs, images, files, imageSeq>>

\* softDeleteComment; for a comment that is already redacted the code
\* answers ok without the save, which would store the row it already has
softDeleteComment(commentId, userId, requesterRole) ==
  LET found == commentId \in DOMAIN comments
      res == IF ~found THEN Fail(CommentNotFound)
             ELSE IF ~(comments[commentId].userId = userId \/ IsAdminRole(requesterRole))
               THEN Fail(CommentDenied)
             ELSE Ok
  IN /\ last' = [op |-> "softDeleteComment", commentId |-> commentId,
                 userId |-> userId, role |-> requesterRole,
                 success |-> res.success, error |-> res.error]
     /\ comments' = IF res.success
                      THEN [comments EXCEPT ![commentId].isDeleted = TRUE,
                                            ![commentId].content = Redacted]
                      ELSE comments
     /\ UNCHANGED <<articles, articleTags, tags, clock, rowSeq, reqs, images, files, imageSeq>>

\* ------------------------- createComment and softDeleteComment, await by await
\* Neither handler runs in a transaction.  createComment: the article and
\* role checks,
createCommentBegin(r, articleId, dto, userId) ==
  LET requesterRole == IF userId \in DOMAIN RoleOfUser THEN RoleOfUser[userId] ELSE USER
      call == [articleId |-> articleId, dto |-> dto, userId |-> userId]
      res == IF articleId \notin DOMAIN articles \/ articles[articleId].isDeleted
               THEN Fail(NotFound)
             ELSE IF ~IsAdminRole(requesterRole) /\ ~articles[articleId].isPublished
               THEN Fail(NotPublished)
             ELSE Ok
  IN /\ reqs[r].pc = "idle"
     /\ reqs' = [reqs EXCEPT ![r] =
                   IF ~res.success
                     THEN [pc |-> "done", call |-> call, success |-> FALSE, error |-> res.error]
                   ELSE IF dto.parentCommentId # NullId
                     THEN [pc |-> "createComment.parent", call |-> call]
                   ELSE [pc |-> "createComment.save", call |-> call]]
     /\ last' = IF res.success THEN [op |-> "createComment.checks", req |-> r]
                ELSE [op |-> "createComment", articleId |-> articleId, dto |-> dto,
                      userId |-> userId, success |-> FALSE, error |-> res.error]
     /\ UNCHANGED <<articles, articleTags, tags, clock, rowSeq, comments,
                    images, files, imageSeq>>

\* the lookup of the parent and the two tests of it,
createCommentParent(r) ==
  LET c == reqs[r].call
      p == c.dto.parentCommentId
      res == IF ~ParentFound(p, c.articleId) THEN Fail(ParentNotFound)
             ELSE IF ParentIsDeleted(comments[p]) THEN Fail(ParentDeleted)
             ELSE Ok
  IN /\ reqs[r].pc = "createComment.parent"
     /\ reqs' = [reqs EXCEPT ![r] =
                   IF res.success THEN [pc |-> "createComment.save", call |-> c]
                   ELSE [pc |-> "done", call |-> c, success |-> FALSE, error |-> res.error]]
     /\ last' = IF res.success THEN [op |-> "createComment.parent", req |-> r]
                ELSE [op |-> "createComment", articleId |-> c.articleId, dto |-> c.dto,
                      userId |-> c.userId, success |-> FALSE, error |-> res.error]
     /\ UNCHANGED <<articles, articleTags, tags, clock, rowSeq, comments,
                    images, files, imageSeq>>

\* and await this.commentRepository.save(comment) at time now
createCommentSave(r, now) ==
  LET c == reqs[r].call
      id == Len(comments) + 1
      row == [id |-> id, articleId |-> c.articleId, userId |-> c.userId,
              parentCommentId |-> c.dto.parentCommentId, content |-> c.dto.content,
              isDeleted |-> FALSE, createdAt |-> now]
  IN /\ reqs[r].pc = "createComment.save"
     /\ comments' = Append(comments, row)
     /\ reqs' = [reqs EXCEPT ![r] = [pc |-> "done", call |-> c, success |-> TRUE, error |-> ""]]
     /\ last' = [op |-> "createComment", articleId |-> c.articleId, dto |-> c.dto,
                 userId |-> c.userId, success |-> TRUE, error |-> ""]
     /\ UNCHANGED <<articles, articleTags, tags, clock, rowSeq, images, files, imageSeq>>

\* softDeleteComment: findOne and the tests,
softDeleteCommentBegin(r, commentId, userId, requesterRole) ==
  LET call == [commentId |-> commentId, userId |-> userId, role |-> requesterRole]
      found == commentId \in DOMAIN comments
      res == IF ~found THEN Fail(CommentNotFound)
             ELSE IF ~(comments[commentId].userId = userId \/ IsAdminRole(requesterRole))
               THEN Fail(CommentDenied)
             ELSE Ok
      answered == ~res.success
                    \/ (comments[commentId].isDeleted /\ comments[commentId].content = Redacted)
  IN /\ reqs[r].pc = "idle"
     /\ reqs' = [reqs EXCEPT ![r] =
                   IF answered
                     THEN [pc |-> "done", call |-> call,
                           success |-> res.success, error |-> res.error]
                     ELSE [pc |-> "softDeleteComment.save", call |-> call]]
     /\ last' = IF answered
                  THEN [op |-> "softDeleteComment", commentId |-> commentId,
                        userId |-> userId, role |-> requesterRole,
                        success |-> res.success, error |-> res.error]
                  ELSE [op |-> "softDeleteComment.findOne", req |-> r]
     /\ UNCHANGED <<articles, articleTags, tags, clock, rowSeq, comments,
                    images, files, imageSeq>>

\* and the save of the redacted row
softDeleteCommentSave(r) ==
  LET c == reqs[r].call
  IN /\ reqs[r].pc = "softDeleteComment.save"
     /\ comments' = [comments EXCEPT ![c.commentId].isDeleted = TRUE,
                                     ![c.commentId].content = Redacted]
     /\ reqs' = [reqs EXCEPT ![r] = [pc |-> "done", call |-> c, success |-> TRUE, error |-> ""]]
     /\ last' = [op |-> "softDeleteComment", commentId |-> c.commentId,
                 userId |-> c.userId, role |-> c.role, success |-> TRUE, error |-> ""]
     /\ UNCHANGED <<articles, articleTags, tags, clock, rowSeq, images, files, imageSeq>>

\* the rows the query of getCommentsByArticle selects
SelectedComments(articleId, requesterRole) ==
  {i \in DOMAIN comments :
     /\ comments[i].articleId = articleId
     /\ (~IsAdminRole(requesterRole) => comments[i].isDeleted = FALSE)}

\* the orders ORDER BY createdAt ASC can return the rows in: rows with the
\* same createdAt come in any order
OrdersByCreatedAt(ids) ==
  {o \in [1..Cardinality(ids) -> ids] :
     /\ \A j, k \in DOMAIN o : j # k => o[j] # o[k]
     /\ \A j, k \in DOMAIN o : j < k => comments[o[j]].createdAt <= comments[o[k]].createdAt}

\* getCommentsByArticle(articleId, requesterRole), the query answering in
\* the order `order`
getCommentsByArticle(articleId, requesterRole, order) ==
  LET list == [k \in DOMAIN order |-> comments[order[k]]]
      tree == BuildCommentTree(list)
  IN /\ order \in OrdersByCreatedAt(SelectedComments(articleId, requesterRole))
     /\ last' = [op |-> "getCommentsByArticle", articleId |-> articleId,
                 role |-> requesterRole, success |-> TRUE, error |-> "",
                 input |-> list, roots |-> tree.roots, children |-> tree.children]
     /\ UNCHANGED <<articles, articleTags, tags, clock, rowSeq, reqs, comments, images, files, imageSeq>>

\* ----------------------------------------------------------------- reads
getPagedArticles(p) ==
  LET res == GetPagedArticlesResult(p)
  IN /\ last' = [op |-> "getPagedArticles", params |-> p, success |-> res.success,
                 error |-> res.error, items |-> res.items,
                 currentPage |-> res.currentPage, pageSize |-> res.pageSize,
                 totalCount |-> res.totalCount, isAscending |-> res.isAscending]
     /\ UNCHANGED <<articles, articleTags, tags, clock, rowSeq, reqs, comments, images, files, imageSeq>>

BySlugIn_DeniedWhenHidden(store, slug, requesterRole, requesterUserId) ==
  LET named == {k \in DOMAIN store : store[k].slug = slug}
      hit == {k \in named :
                ApplyVisibilityRules(store[k], requesterRole, requesterUserId, FALSE)}
  IN IF named = {} THEN [success |-> FALSE, error |-> NotFoundOrDenied, items |-> <<>>]
     ELSE IF hit = {} THEN [success |-> FALSE, error |-> AccessDenied, items |-> <<>>]
     ELSE LET k == CHOOSE j \in hit : TRUE
          IN [success |-> TRUE, error |-> "",
              items |-> <<MapToArticleResponseDto(store[k], JoinRows(store[k].id))>>]

\* the query of getArticleBySlug run on the article rows `store`: the row
\* with the slug that passes applyVisibilityRules (the slug is unique), or
\* the one failure answer when getOne() finds nothing
BySlugIn(store, slug, requesterRole, requesterUserId) ==
  LET hit == {k \in DOMAIN store :
                /\ store[k].slug = slug
                /\ ApplyVisibilityRules(store[k], requesterRole, requesterUserId, FALSE)}
  IN IF hit = {} THEN [success |-> FALSE, error |-> NotFoundOrDenied, items |-> <<>>]
     ELSE LET k == CHOOSE j \in hit : TRUE
          IN [success |-> TRUE, error |-> "",
              items |-> <<MapToArticleResponseDto(store[k], JoinRows(store[k].id))>>]

GetArticleBySlugResult(slug, requesterRole, requesterUserId) ==
  BySlugIn(articles, slug, requesterRole, requesterUserId)

getArticleBySlug(slug, requesterRole, requesterUserId) ==
  LET res == GetArticleBySlugResult(slug, requesterRole, requesterUserId)
  IN /\ last' = [op |-> "getArticleBySlug", slug |-> slug, role |-> requesterRole,
                 userId |-> requesterUserId, success |-> res.success,
                 error |-> res.error, items |-> res.items]
     /\ UNCHANGED <<articles, articleTags, tags, clock, rowSeq, reqs, comments, images, files, imageSeq>>

GetArticleByIdResult(articleId, requesterRole, requesterUserId) ==
  IF articleId \notin DOMAIN articles
    THEN [success |-> FALSE, error |-> NotFound, items |-> <<>>]
  ELSE IF ~CanModifyArticle(articles[articleId], requesterRole, requesterUserId)
    THEN [success |-> FALSE, error |-> AccessDenied, items |-> <<>>]
  ELSE [success |-> TRUE, error |-> "",
        items |-> <<MapToArticleResponseDto(articles[articleId], JoinRows(articleId))>>]

getArticleById(articleId, requesterRole, requesterUserId) ==
  LET res == GetArticleByIdResult(articleId, requesterRole, requesterUserId)
  IN /\ last' = [op |-> "getArticleById", articleId |-> articleId,
                 role |-> requesterRole, userId |-> requesterUserId,
                 success |-> res.success, error |-> res.error, items |-> res.items]
     /\ UNCHANGED <<articles, articleTags, tags, clock, rowSeq, reqs, comments, images, files, imageSeq>>

\* ------------------------------------------------- inputs of Spec
Params(role, userId, includeDeleted, categorySlug, tagSlug, keyword, page, pageSize, asc) ==
  [requesterRole |-> role, requesterUserId |-> userId,
   includeDeleted |-> includeDeleted, categorySlug |-> categorySlug,
   tagSlug |-> tagSlug, keyword |-> keyword, page |-> page,
   pageSize |-> pageSize, isAscending |-> asc]

TitleA == <<"A", "b">>
ContentA == <<"b">>
TitleB == <<"b">>
ContentB == <<"b", "b">>

CreateDtos ==
  [title : {TitleA}, content : {ContentA}, slug : {Slug(clock)},
   categoryId : {"c1"}, isPublished : BOOLEAN, tagIds : {<<"t1", "t2", "t1">>}]

UpdateDtos ==
  {[isPublished |-> TRUE], [isPublished |-> FALSE, tagIds |-> <<"t2", "t1">>]}

\* ids a request can name; an id not issued yet names no article
ArticleIdInputs == 1..MaxArticles

\* <<role, id>> of the caller of a read: every role value as user u1, and
\* the callers that carry no id
Requesters ==
  {<<r, "u1">> : r \in RoleInputs} \cup {<<USER, "">>, <<AUTHOR, "">>}

\* callers of a mutation always carry an id
Mutators == {<<r, "u1">> : r \in RoleInputs}

CreateArticle ==
  /\ clock <= MaxArticles
  /\ \E dto \in CreateDtos, authorId \in Users : createArticle(dto, authorId)

UpdateArticle ==
  \E id \in ArticleIdInputs, dto \in UpdateDtos, rq \in Mutators :
    updateArticle(id, dto, rq[1], rq[2])

SoftDeleteArticle ==
  \E id \in ArticleIdInputs, rq \in Mutators : softDeleteArticle(id, rq[1], rq[2])

RestoreArticle ==
  \E id \in ArticleIdInputs, rq \in Mutators : restoreArticle(id, rq[1], rq[2])

GetPagedArticles ==
  \E rq \in Requesters, incl \in BOOLEAN :
    getPagedArticles(Params(rq[1], rq[2], incl, "", "", <<>>, 1, DefaultPageSize, FALSE))

GetArticleBySlug ==
  \E n \in ArticleIdInputs, rq \in Requesters : getArticleBySlug(Slug(n), rq[1], rq[2])

GetArticleById ==
  \E id \in ArticleIdInputs, rq \in Requesters : getArticleById(id, rq[1], rq[2])

Next ==
  \/ CreateArticle
  \/ UpdateArticle
  \/ SoftDeleteArticle
  \/ RestoreArticle
  \/ GetPagedArticles
  \/ GetArticleBySlug
  \/ GetArticleById

Spec == Init /\ [][Next]_vars

\* ------------------------------------------- SpecFilter: filtered lists
\* two kinds of article: a published one and a draft, which differ in
\* text, category, tag and author
FilterDtos ==
  {[title |-> TitleA, content |-> ContentA, slug |-> Slug(clock),
    categoryId |-> "c1", isPublished |-> TRUE, tagIds |-> <<"t1">>],
   [title |-> TitleB, content |-> ContentB, slug |-> Slug(clock),
    categoryId |-> "c2", isPublished |-> FALSE, tagIds |-> <<"t2">>]}

AuthorOf(dto) == IF dto.title = TitleA THEN "u1" ELSE "u2"

Keywords == {<<>>, <<"a">>, <<"%">>, <<"_">>}

\* <<role, includeDeleted>> of the caller of a filtered list
FilterRequesters ==
  {<<USER, TRUE>>, <<AUTHOR, FALSE>>, <<ADMIN, FALSE>>, <<ADMIN, TRUE>>}

CreateFilterArticle ==
  /\ clock <= MaxArticles
  /\ \E dto \in FilterDtos : createArticle(dto, AuthorOf(dto))

SoftDeleteFilterArticle ==
  \E id \in ArticleIdInputs : softDeleteArticle(id, ADMIN, "u1")

GetFilteredArticles ==
  \E rq \in FilterRequesters, cat \in {"", "technology"}, tag \in {"", "nestjs"},
     kw \in Keywords :
    getPagedArticles(Params(rq[1], "u1", rq[2], cat, tag, kw, 1, DefaultPageSize, FALSE))

NextFilter ==
  \/ CreateFilterArticle
  \/ SoftDeleteFilterArticle
  \/ GetFilteredArticles

SpecFilter == Init /\ [][NextFilter]_vars

\* --------------------------------------------- SpecPage: page windows
PageDto ==
  [title |-> TitleA, content |-> ContentA, slug |-> Slug(clock),
   categoryId |-> "c1", isPublished |-> TRUE, tagIds |-> <<>>]

Pages == {-1, 0, 1, 2}
PageSizes == {0, 1, 7, 20, 21, 1000}

CreatePageArticle ==
  /\ clock <= MaxRows
  /\ createArticle(PageDto, "u1")

GetPage ==
  \E page \in Pages, pageSize \in PageSizes, asc \in BOOLEAN :
    getPagedArticles(Params(USER, "", FALSE, "", "", <<>>, page, pageSize, asc))

NextPage ==
  \/ CreatePageArticle
  \/ GetPage

SpecPage == Init /\ [][NextPage]_vars

\* ------------------------------------- SpecOrder: pages over equal times
\* articles may be created within the same second, so createdAt can tie
OrderDtos ==
  [title : {TitleA}, content : {ContentA}, slug : {Slug(clock)},
   categoryId : {"c1"}, isPublished : BOOLEAN, tagIds : {<<>>}]

\* the time of the latest row, 0 for an empty table
LatestCreatedAt ==
  IF DOMAIN articles = {} THEN 0
  ELSE CHOOSE t \in {articles[i].createdAt : i \in DOMAIN articles} :
         \A i \in DOMAIN articles : articles[i].createdAt <= t

OrderPages == 1..(MaxOrderRows + 1)
OrderPageSizes == {1, 2}

CreateOrderArticle ==
  /\ clock <= MaxOrderRows
  /\ \E dto \in OrderDtos, now \in {LatestCreatedAt, LatestCreatedAt + 1} :
       /\ now >= 1
       /\ createArticleAt(dto, "u1", now)

GetOrderPage ==
  \E role \in {USER, ADMIN}, page \in OrderPages, pageSize \in OrderPageSizes,
     asc \in BOOLEAN :
    getPagedArticles(Params(role, "u2", FALSE, "", "", <<>>, page, pageSize, asc))

NextOrder ==
  \/ CreateOrderArticle
  \/ GetOrderPage

SpecOrder == Init /\ [][NextOrder]_vars


\* ------------------------------------------ SpecTags: tag associations
\* tag id lists a request can carry: empty, repeated, reordered, and one
\* with an id that names no tag
TagLists ==
  {<<>>, <<"t1">>, <<"t1", "t2">>, <<"t2", "t3">>, <<"t2", "t1", "t2">>, <<"t1", "t9">>}

TagCreateDtos ==
  [title : {TitleA}, content : {ContentA}, slug : {Slug(clock)},
   categoryId : {"c1"}, isPublished : {FALSE}, tagIds : TagLists]

TagUpdateDtos == [isPublished : {TRUE}, tagIds : TagLists]

CreateTagArticle ==
  /\ clock <= MaxTagArticles
  /\ \E dto \in TagCreateDtos : createArticle(dto, "u1")

UpdateTags ==
  /\ rowSeq < MaxTagRows
  /\ \E dto \in TagUpdateDtos, role \in {AUTHOR, ADMIN} : updateArticle(1, dto, role, "u1")

DeleteTag == \E id \in {"t2", "t9"} : deleteTag(id)

\* the article read back by id and by slug
GetTagArticle ==
  \/ getArticleById(1, ADMIN, "u2")
  \/ getArticleBySlug(Slug(1), USER, "u1")

NextTags ==
  \/ CreateTagArticle
  \/ UpdateTags
  \/ DeleteTag
  \/ GetTagArticle

SpecTags == Init /\ [][NextTags]_vars

\* ------------------------------------------ SpecSlug: slugs in requests
SlugCreateDtos ==
  [title : {TitleA}, content : {ContentA}, slug : {Slug(1), Slug(2)},
   categoryId : {"c1"}, isPublished : BOOLEAN, tagIds : {<<"t1">>}]

\* the editor sends the slug with every update
SlugUpdateDtos ==
  [slug : {Slug(1), Slug(2), Slug(3)}, isPublished : BOOLEAN]

CreateSlugArticle ==
  /\ clock <= MaxSlugArticles
  /\ \E dto \in SlugCreateDtos : createArticle(dto, "u1")

UpdateSlug ==
  \E id \in 1..MaxSlugArticles, dto \in SlugUpdateDtos,
     rq \in {<<AUTHOR, "u1">>, <<ADMIN, "u2">>} :
    updateArticle(id, dto, rq[1], rq[2])

SoftDeleteSlugArticle ==
  \E id \in 1..MaxSlugArticles : softDeleteArticle(id, ADMIN, "u2")

NextSlug ==
  \/ CreateSlugArticle
  \/ UpdateSlug
  \/ SoftDeleteSlugArticle

SpecSlug == Init /\ [][NextSlug]_vars

\* ------------------------------------------- SpecTree: comment threads
TreeDto ==
  [title |-> TitleA, content |-> ContentA, slug |-> Slug(clock),
   categoryId |-> "c1", isPublished |-> TRUE, tagIds |-> <<>>]

\* the time of the latest comment, 0 for an empty table
LatestCommentAt ==
  IF comments = <<>> THEN 0 ELSE comments[Len(comments)].createdAt

CreateTreeArticle ==
  /\ clock <= 1
  /\ createArticle(TreeDto, "u1")

CreateComment ==
  /\ Len(comments) < MaxComments
  /\ \E parent \in 0..MaxComments, now \in {LatestCommentAt, LatestCommentAt + 1} :
       /\ now >= 1
       /\ createCommentAt(1, [content |-> "text", parentCommentId |-> parent], "u1", now)

SoftDeleteComment ==
  \E id \in {1, 2} : softDeleteComment(id, "u2", ADMIN)

GetCommentsByArticle ==
  \E role \in {USER, ADMIN} :
    \E order \in OrdersByCreatedAt(SelectedComments(1, role)) :
      getCommentsByArticle(1, role, order)

NextTree ==
  \/ CreateTreeArticle
  \/ CreateComment
  \/ SoftDeleteComment
  \/ GetCommentsByArticle

SpecTree == Init /\ [][NextTree]_vars

\* --------------------------------- SpecSync: two tag updates in flight
SyncCreateDtos ==
  [title : {TitleA}, content : {ContentA}, slug : {Slug(clock)},
   categoryId : {"c1"}, isPublished : {FALSE}, tagIds : {<<>>, <<"t3">>}]

SyncUpdateDtos == [tagIds : {<<"t1">>, <<"t2">>, <<"t1", "t2">>}]

CreateSyncArticle ==
  /\ clock <= MaxSyncArticles
  /\ \E dto \in SyncCreateDtos : createArticle(dto, "u1")

UpdateBegin ==
  \E r \in RequestIds, id \in 1..MaxSyncArticles, dto \in SyncUpdateDtos :
    updateBegin(r, id, dto, ADMIN, "u2")

SyncFind == \E r \in RequestIds : syncFind(r)

SyncRemove == \E r \in RequestIds : syncRemove(r)

SyncSave == \E r \in RequestIds : syncSave(r)

NextSync ==
  \/ CreateSyncArticle
  \/ UpdateBegin
  \/ SyncFind
  \/ SyncRemove
  \/ SyncSave

SpecSync == Init /\ [][NextSync]_vars

\* ------------------------------------- SpecHard: images and hard delete
HardDto ==
  [title |-> TitleA, content |-> ContentA, slug |-> Slug(clock),
   categoryId |-> "c1", isPublished |-> TRUE, tagIds |-> <<"t1">>]

\* an upload without a file, a PNG, and a file of a type that is refused
UploadFiles ==
  {NoFile,
   [present |-> TRUE, buffer |-> TRUE, mimetype |-> "image/png", size |-> 1024],
   [present |-> TRUE, buffer |-> TRUE, mimetype |-> "text/plain", size |-> 1024]}

CreateHardArticle ==
  /\ clock <= MaxHardArticles
  /\ createArticle(HardDto, "u1")

UploadArticleImage ==
  /\ imageSeq < MaxImages
  /\ \E file \in UploadFiles, rq \in {<<AUTHOR, "u1">>, <<USER, "u2">>} :
       uploadArticleImage(1, file, rq[1], rq[2])

HardDeleteBegin ==
  \E r \in RequestIds, role \in {USER, AUTHOR, ADMIN} : hardDeleteBegin(r, 1, role)

HardDeleteFindImages == \E r \in RequestIds : hardDeleteFindImages(r)

HardDeleteUnlink == \E r \in RequestIds : hardDeleteUnlink(r)

HardDeleteRemove == \E r \in RequestIds, threw \in BOOLEAN : hardDeleteRemove(r, threw)

NextHard ==
  \/ CreateHardArticle
  \/ UploadArticleImage
  \/ HardDeleteBegin
  \/ HardDeleteFindImages
  \/ HardDeleteUnlink
  \/ HardDeleteRemove

SpecHard == Init /\ [][NextHard]_vars

\* ------------------------------------------ SpecRoles: role resolution
\* role names a token can carry: the enum and a name outside it
RoleNames == UserRole \cup {"MODERATOR"}

RECURSIVE ListsUpTo(_)
ListsUpTo(n) ==
  IF n = 0 THEN {<<>>}
  ELSE ListsUpTo(n - 1) \cup
       {Append(l, x) : l \in {m \in ListsUpTo(n - 1) : Len(m) = n - 1}, x \in RoleNames}

RoleSets == {NoRoles} \cup {RolesOf(l) : l \in ListsUpTo(MaxRoles)}

\* the role a mutation endpoint passes to the service
ResolveRequesterRole ==
  \E roles \in RoleSets :
    /\ last' = [op |-> "resolveRequesterRole", roles |-> roles,
                role |-> resolveRequesterRole(roles)]
    /\ UNCHANGED <<articles, articleTags, tags, clock, rowSeq, reqs, comments,
                   images, files, imageSeq>>

\* the role the list endpoint passes to getPagedArticles
GetArticlesRole ==
  \E roles \in RoleSets :
    /\ last' = [op |-> "getArticles.requesterRole", roles |-> roles,
                role |-> GetArticlesRequesterRole(roles)]
    /\ UNCHANGED <<articles, articleTags, tags, clock, rowSeq, reqs, comments,
                   images, files, imageSeq>>

\* the role createComment works with
GetRequesterRoleByUserId ==
  \E roles \in RoleSets :
    /\ last' = [op |-> "getRequesterRoleByUserId", roles |-> roles,
                role |-> getRequesterRoleByUserId(roles)]
    /\ UNCHANGED <<articles, articleTags, tags, clock, rowSeq, reqs, comments,
                   images, files, imageSeq>>

NextRoles ==
  \/ ResolveRequesterRole
  \/ GetArticlesRole
  \/ GetRequesterRoleByUserId

SpecRoles == Init /\ [][NextRoles]_vars

\* ------------------------------- SpecThread: the parent links of comments
ThreadUpdateDtos ==
  {[content |-> "edited"],
   [content |-> "edited", parentCommentId |-> NullId],
   [parentCommentId |-> 1],
   [content |-> "edited", parentCommentId |-> 2],
   [content |-> "edited", articleId |-> 2]}

CreateThreadArticle ==
  /\ clock <= MaxThreadArticles
  /\ createArticle(TreeDto, "u1")

CreateThreadComment ==
  /\ Len(comments) < MaxThreadComments
  /\ \E articleId \in 1..MaxThreadArticles, parent \in 0..MaxThreadComments :
       createCommentAt(articleId, [content |-> "text", parentCommentId |-> parent],
                       "u1", LatestCommentAt + 1)

UpdateComment ==
  \E id \in 1..MaxThreadComments, dto \in ThreadUpdateDtos,
     rq \in {<<"u1", USER>>, <<"u2", USER>>, <<"u2", ADMIN>>} :
    updateComment(id, dto, rq[1], rq[2])

SoftDeleteThreadComment ==
  \E id \in 1..MaxThreadComments, rq \in {<<"u1", USER>>, <<"u2", USER>>} :
    softDeleteComment(id, rq[1], rq[2])

NextThread ==
  \/ CreateThreadArticle
  \/ CreateThreadComment
  \/ UpdateComment
  \/ SoftDeleteThreadComment

SpecThread == Init /\ [][NextThread]_vars

\* ------------------- SpecRace: a reply racing the redaction of its parent
CreateRaceArticle ==
  /\ clock <= 1
  /\ createArticle(TreeDto, "u1")

\* the comments that are there before the calls in flight start
CreateRaceComment ==
  /\ Len(comments) < MaxRaceSeed
  /\ \A r \in RequestIds : reqs[r].pc = "idle"
  /\ \E parent \in 0..1 :
       createCommentAt(1, [content |-> "text", parentCommentId |-> parent],
                       "u1", LatestCommentAt + 1)

CreateCommentBegin ==
  \E r \in RequestIds, parent \in 0..MaxRaceSeed :
    createCommentBegin(r, 1, [content |-> "reply", parentCommentId |-> parent], "u1")

CreateCommentParent == \E r \in RequestIds : createCommentParent(r)

CreateCommentSave == \E r \in RequestIds : createCommentSave(r, LatestCommentAt + 1)

SoftDeleteCommentBegin ==
  \E r \in RequestIds, id \in 1..MaxRaceSeed, rq \in {<<"u1", USER>>, <<"u2", ADMIN>>} :
    softDeleteCommentBegin(r, id, rq[1], rq[2])

SoftDeleteCommentSave == \E r \in RequestIds : softDeleteCommentSave(r)

NextRace ==
  \/ CreateRaceArticle
  \/ CreateRaceComment
  \/ CreateCommentBegin
  \/ CreateCommentParent
  \/ CreateCommentSave
  \/ SoftDeleteCommentBegin
  \/ SoftDeleteCommentSave

SpecRace == Init /\ [][NextRace]_vars

\* =================================================================== claims
ItemIds(items) == {items[k].id : k \in 1..Len(items)}

Unfiltered(p) == p.categorySlug = "" /\ p.tagSlug = "" /\ p.keyword = <<>>

\* a list answer that holds every matching row on one page
WholeList ==
  /\ last.op = "getPagedArticles"
  /\ Unfiltered(last.params)
  /\ last.totalCount = Len(last.items)

ArticlesWhere(P(_)) == {i \in DOMAIN articles : P(articles[i])}

\* C1: the list and the by-slug lookup return a soft-deleted article only to
\* an ADMIN/SUPERADMIN caller that asked for includeDeleted; every other
\* role, with either value of the flag, never receives one.
C1_DeletedOnlyToPrivileged ==
  /\ last.op = "getPagedArticles" =>
       \A k \in 1..Len(last.items) :
         last.items[k].isDeleted =>
           (last.params.requesterRole \in {ADMIN, SUPERADMIN} /\ last.params.includeDeleted)
  /\ last.op = "getArticleBySlug" =>
       \A k \in 1..Len(last.items) : ~last.items[k].isDeleted

C1_Witness ==
  /\ last.op = "getPagedArticles"
  /\ last.params.requesterRole = AUTHOR
  /\ last.params.includeDeleted
  /\ \E i \in DOMAIN articles :
       articles[i].isDeleted /\ articles[i].authorId = last.params.requesterUserId

\* C2: for role USER the list returns exactly the published, not deleted
\* articles, and the by-slug lookup succeeds exactly when the slug names one,
\* whoever wrote the article and whoever asks.
C2_UserSeesPublishedOnly ==
  /\ (WholeList /\ last.params.requesterRole = USER) =>
       ItemIds(last.items) = ArticlesWhere(LAMBDA a : a.isPublished /\ ~a.isDeleted)
  /\ (last.op = "getArticleBySlug" /\ last.role = USER) =>
       /\ last.success <=>
            \E i \in DOMAIN articles :
              articles[i].slug = last.slug /\ articles[i].isPublished /\ ~articles[i].isDeleted
       /\ \A k \in 1..Len(last.items) : last.items[k].slug = last.slug

C2_Witness ==
  /\ WholeList
  /\ last.params.requesterRole = USER
  /\ last.params.requesterUserId = "u1"
  /\ \E i, j \in DOMAIN articles :
       /\ articles[i].authorId = "u1" /\ ~articles[i].isPublished /\ ~articles[i].isDeleted
       /\ articles[j].authorId = "u2" /\ articles[j].isPublished /\ ~articles[j].isDeleted

\* C3: for role AUTHOR with caller id c the list returns exactly the not
\* deleted articles that c wrote or that are published.
C3_AuthorSeesOwnAndPublished ==
  (WholeList /\ last.params.requesterRole = AUTHOR /\ last.params.requesterUserId # "") =>
    ItemIds(last.items) =
      ArticlesWhere(LAMBDA a : ~a.isDeleted
                      /\ (a.authorId = last.params.requesterUserId \/ a.isPublished))

C3_Witness ==
  /\ WholeList
  /\ last.params.requesterRole = AUTHOR
  /\ last.params.requesterUserId = "u1"
  /\ \E i, j \in DOMAIN articles :
       /\ articles[i].authorId = "u1" /\ ~articles[i].isPublished /\ ~articles[i].isDeleted
       /\ articles[j].authorId = "u2" /\ ~articles[j].isPublished /\ ~articles[j].isDeleted

\* C4: for ADMIN and SUPERADMIN the list returns every not deleted article
\* when includeDeleted is false and every article when it is true, whatever
\* isPublished and authorId are, and both roles get the same answer.
C4_PrivilegedSeeAll ==
  (WholeList /\ last.params.requesterRole \in {ADMIN, SUPERADMIN}) =>
    /\ ItemIds(last.items) =
         IF last.params.includeDeleted THEN DOMAIN articles
         ELSE ArticlesWhere(LAMBDA a : ~a.isDeleted)
    /\ \A r \in {ADMIN, SUPERADMIN} :
         GetPagedArticlesResult([last.params EXCEPT !.requesterRole = r]).items = last.items

C4_Witness ==
  /\ WholeList
  /\ last.params.requesterRole = SUPERADMIN
  /\ last.params.includeDeleted
  /\ \E i \in DOMAIN articles :
       articles[i].isDeleted /\ ~articles[i].isPublished /\ articles[i].authorId = "u2"

\* C5: a role that is absent or outside the enum, and an AUTHOR without a
\* caller id, get the published and not deleted articles only.
C5_UnknownRoleFailsClosed ==
  (/\ WholeList
   /\ \/ last.params.requesterRole \notin UserRole
      \/ (last.params.requesterRole = AUTHOR /\ last.params.requesterUserId = "")) =>
    ItemIds(last.items) = ArticlesWhere(LAMBDA a : a.isPublished /\ ~a.isDeleted)

C5_Witness ==
  /\ WholeList
  /\ last.params.requesterRole = "undefined"
  /\ last.params.includeDeleted
  /\ \E i, j \in DOMAIN articles :
       /\ ~articles[i].isPublished /\ ~articles[i].isDeleted
       /\ articles[j].isPublished /\ articles[j].isDeleted

MutationOps == {"updateArticle", "softDeleteArticle", "restoreArticle"}

\* C6: a mutation of an article by an AUTHOR who is not its author fails and
\* leaves the article rows and the join rows as they were.
C6_NonOwnerAuthorDenied ==
  [][(/\ last'.op \in MutationOps
      /\ last'.role = AUTHOR
      /\ last'.articleId \in DOMAIN articles
      /\ articles[last'.articleId].authorId # last'.userId)
     => (~last'.success /\ articles' = articles /\ articleTags' = articleTags)]_vars

\* the answers that show what canModifyArticle decided for an existing article
CanModifyDecided ==
  /\ last.op \in {"updateArticle", "getArticleById", "softDeleteArticle"}
  /\ last.articleId \in DOMAIN articles
  /\ last.error # AlreadyDeleted

\* C7 as claimed: the caller is allowed exactly when it owns the article or
\* holds a privileged role.
C7_OwnerOrPrivileged ==
  CanModifyDecided =>
    (last.error # AccessDenied <=>
       \/ articles[last.articleId].authorId = last.userId
       \/ last.role \in {ADMIN, SUPERADMIN})

\* C7 amended: the caller is allowed exactly when its role is ADMIN or
\* SUPERADMIN, or its role is AUTHOR and it owns the article.
C7_OwnerAuthorOrPrivileged ==
  CanModifyDecided =>
    (last.error # AccessDenied <=>
       \/ (last.role = AUTHOR /\ articles[last.articleId].authorId = last.userId)
       \/ last.role \in {ADMIN, SUPERADMIN})

C7_Witness ==
  /\ last.op = "updateArticle"
  /\ last.role = USER
  /\ last.articleId \in DOMAIN articles
  /\ articles[last.articleId].authorId = last.userId
  /\ last.error = AccessDenied

\* C9: getArticleById returns no soft-deleted article to a caller that is
\* not ADMIN/SUPERADMIN.
C9_ByIdHidesDeleted ==
  (last.op = "getArticleById" /\ last.role \notin {ADMIN, SUPERADMIN}) =>
    \A k \in 1..Len(last.items) : ~last.items[k].isDeleted

Contains(s, k) ==
  \E i \in 0..(Len(s) - Len(k)) : SubSeq(s, i + 1, i + Len(k)) = k

\* C8: every article the list returns satisfies the caller's visibility
\* predicate, has the requested category slug, carries a tag with the
\* requested tag slug and contains the keyword, case folded, in its title
\* or its content.
C8_ItemsSatisfyEveryFilter ==
  last.op = "getPagedArticles" =>
    \A k \in 1..Len(last.items) :
      LET a == articles[last.items[k].id]
          p == last.params
      IN /\ ApplyVisibilityRules(a, p.requesterRole, p.requesterUserId, p.includeDeleted)
         /\ (p.categorySlug # "" => CategorySlug[a.categoryId] = p.categorySlug)
         /\ (p.tagSlug # "" =>
               \E r \in articleTags : r.articleId = a.id /\ TagSlug[r.tagId] = p.tagSlug)
         /\ (p.keyword # <<>> =>
               \/ Contains(LowerStr(a.title), LowerStr(p.keyword))
               \/ Contains(LowerStr(a.content), LowerStr(p.keyword)))

\* C10: the page size the list reports and the number of items it returns
\* are at most 20 for every requested page size.
C10_AtMostTwentyItems ==
  last.op = "getPagedArticles" =>
    (last.pageSize <= MaxPageSize /\ Len(last.items) <= MaxPageSize)

\* C11: a request for a page below 1 is answered like a request for page 1:
\* the same items, the same currentPage, and a row offset that is not
\* negative.
C11_PageBelowOneIsPageOne ==
  (last.op = "getPagedArticles" /\ last.params.page < 1) =>
    LET one == GetPagedArticlesResult([last.params EXCEPT !.page = 1])
    IN /\ last.items = one.items
       /\ last.currentPage = one.currentPage
       /\ SkipOf(last.params) >= 0

RECURSIVE SumOver(_, _)
SumOver(f(_), S) ==
  IF S = {} THEN 0
  ELSE LET x == CHOOSE y \in S : TRUE IN f(x) + SumOver(f, S \ {x})

\* the ids on page k of the request that was just answered
PageIds(k) == ItemIds(GetPagedArticlesResult([last.params EXCEPT !.page = k]).items)

\* the articles the caller of an unfiltered list may see, spelled out per role
VisibleTo(role) ==
  IF role = USER THEN ArticlesWhere(LAMBDA a : a.isPublished /\ ~a.isDeleted)
  ELSE ArticlesWhere(LAMBDA a : ~a.isDeleted)

Desired(dto) == Range(dto.tagIds) \ {""}

\* C13: a successful updateArticle that carries tagIds = S leaves the
\* article with exactly one join row per tag of S: rows of tags outside S
\* are removed, rows of tags new in S are inserted, and rows of tags in both
\* the old set and S stay the rows they were.
C13_SyncIsSetDifference ==
  [][(/\ last'.op = "updateArticle"
      /\ last'.success
      /\ "tagIds" \in DOMAIN last'.dto)
     => LET id == last'.articleId
            S == Desired(last'.dto)
            old == {r \in articleTags : r.articleId = id}
            new == {r \in articleTags' : r.articleId = id}
        IN /\ {r.tagId : r \in new} = S
           /\ Cardinality(new) = Cardinality(S)
           /\ \A r \in old : r \in new <=> r.tagId \in S
           /\ last'.removed = old \ new
           /\ last'.added = new \ old
           /\ \A r \in new \ old : r.tagId \notin {x.tagId : x \in old}
           /\ {r \in articleTags' : r.articleId # id} = {r \in articleTags : r.articleId # id}]_vars

\* an update that removed a row, inserted a row and kept an older row
C13_Witness ==
  /\ last.op = "updateArticle"
  /\ last.success
  /\ last.removed # {}
  /\ last.added # {}
  /\ \E r \in articleTags : r.articleId = last.articleId /\ r \notin last.added
  /\ Len(last.dto.tagIds) > Cardinality(Desired(last.dto))

\* C14: the same updateArticle request with tagIds, repeated at once after
\* it succeeded, succeeds again, inserts and deletes nothing, and leaves the
\* join rows as the first run left them.
C14_SyncIdempotent ==
  [][(/\ last.op = "updateArticle"
      /\ last.success
      /\ "tagIds" \in DOMAIN last.dto
      /\ last'.op = "updateArticle"
      /\ last'.articleId = last.articleId
      /\ "tagIds" \in DOMAIN last'.dto
      /\ Desired(last'.dto) = Desired(last.dto)
      /\ last'.role = last.role /\ last'.userId = last.userId)
     => (/\ last'.success
         /\ last'.added = {}
         /\ last'.removed = {}
         /\ articleTags' = articleTags)]_vars

\* the second of two equal tag updates has been answered; the first one
\* had written rows
C14_Witness ==
  /\ last.op = "updateArticle"
  /\ last.success
  /\ "tagIds" \in DOMAIN last.dto
  /\ Cardinality(Desired(last.dto)) = 2
  /\ last.added = {}
  /\ last.removed = {}
  /\ rowSeq > 2

\* the ids of a list that name no live tag
BadTagIds(tagIds) ==
  {t \in Range(tagIds) \ {""} : t \notin TagIds \/ tags[t].isDeleted}

\* C15: createArticle or updateArticle whose tagIds name a soft-deleted or
\* nonexistent tag fails and writes nothing: no article row is created or
\* changed and no join row is inserted or removed; a request that passed
\* the checks that come before the tags is answered with the invalid tag ids
\* error.
C15_BadTagsRejectedBeforeWrites ==
  [][(/\ last'.op \in {"createArticle", "updateArticle"}
      /\ "tagIds" \in DOMAIN last'.dto
      /\ BadTagIds(last'.dto.tagIds) # {})
     => (/\ ~last'.success
         /\ articles' = articles
         /\ articleTags' = articleTags
         /\ last'.op = "createArticle" => last'.error = InvalidTags
         /\ (/\ last'.op = "updateArticle"
             /\ last'.articleId \in DOMAIN articles
             /\ \/ last'.role \in {ADMIN, SUPERADMIN}
                \/ (last'.role = AUTHOR
                    /\ articles[last'.articleId].authorId = last'.userId))
              => last'.error = InvalidTags)]_vars

\* an update naming a soft-deleted tag was refused while the article still
\* carries a join row of that tag
C15_Witness ==
  /\ last.op = "updateArticle"
  /\ last.error = InvalidTags
  /\ \E t \in Range(last.dto.tagIds) :
       /\ t \in TagIds /\ tags[t].isDeleted
       /\ \E r \in articleTags : r.articleId = last.articleId /\ r.tagId = t

\* C16: when two updateArticle calls synchronise the tags of one article
\* with different desired sets, then once both have run their sync and are
\* answered the article's tag set is the desired set of one of them and both
\* succeeded.
C16_LastWriterWins ==
  (/\ \A r \in RequestIds : reqs[r].pc = "done" /\ reqs[r].synced
   /\ reqs["r1"].call.articleId = reqs["r2"].call.articleId
   /\ reqs["r1"].call.articleId \in DOMAIN articles
   /\ Desired(reqs["r1"].call.dto) # Desired(reqs["r2"].call.dto)) =>
    /\ {x.tagId : x \in JoinRows(reqs["r1"].call.articleId)}
         \in {Desired(reqs[r].call.dto) : r \in RequestIds}
    /\ \A r \in RequestIds : reqs[r].success

\* C17: createArticle with a slug that another article row already has
\* fails with the duplicate slug error, and the article rows and the join
\* rows are the same as before the call.
C17_DuplicateSlugOnCreate ==
  [][(/\ last'.op = "createArticle"
      /\ \E i \in DOMAIN articles : articles[i].slug = last'.dto.slug)
     => (/\ ~last'.success
         /\ last'.error = SlugInUse
         /\ articles' = articles
         /\ articleTags' = articleTags)]_vars

\* a create was refused for the slug of an article that is soft-deleted
C17_Witness ==
  /\ last.op = "createArticle"
  /\ last.error = SlugInUse
  /\ last.dto.tagIds # <<>>
  /\ \E i \in DOMAIN articles : articles[i].slug = last.dto.slug /\ articles[i].isDeleted

\* C18: the slug of an article that is published does not change in any
\* step, whoever calls updateArticle.
C18_PublishedSlugFrozen ==
  [][\A i \in DOMAIN articles :
       articles[i].isPublished => articles'[i].slug = articles[i].slug]_vars

\* the nodes of the forest, parents before their children
RECURSIVE Walk(_, _)
Walk(children, ids) ==
  IF ids = <<>> THEN <<>>
  ELSE <<Head(ids)>> \o Walk(children, children[Head(ids)]) \o Walk(children, Tail(ids))

InputIds == {last.input[k].id : k \in 1..Len(last.input)}

\* the arrays of the answer that hold the node id
Holders(id) ==
  (IF id \in Range(last.roots) THEN {<<"roots">>} ELSE {})
    \cup {<<"children", p>> : p \in {q \in DOMAIN last.children : id \in Range(last.children[q])}}

\* C19: every comment of the input is in the forest exactly once: as a root
\* when its parentCommentId is null or names no comment of the input, and
\* otherwise as a child of the node with that id.
C19_EveryCommentPlacedOnce ==
  last.op = "getCommentsByArticle" =>
    LET nodes == Walk(last.children, last.roots)
    IN /\ Len(nodes) = Len(last.input)
       /\ Range(nodes) = InputIds
       /\ \A k \in 1..Len(last.input) :
            LET c == last.input[k]
            IN Holders(c.id) =
                 IF c.parentCommentId = NullId \/ c.parentCommentId \notin InputIds
                   THEN {<<"roots">>}
                   ELSE {<<"children", c.parentCommentId>>}

\* a reply listed before its parent, a reply to a reply, and a reply whose
\* parent is not in the input, in one answer
C19_Witness ==
  /\ last.op = "getCommentsByArticle"
  /\ \E j, k \in 1..Len(last.input) :
       j < k /\ last.input[j].parentCommentId = last.input[k].id
  /\ \E k \in 1..Len(last.input) :
       last.input[k].parentCommentId \notin InputIds \cup {NullId}
  /\ Len(last.roots) >= 2

\* ids of the input rows that satisfy P, in input order
InputWhere(P(_)) ==
  LET sel == SelectSeq(last.input, P) IN [k \in 1..Len(sel) |-> sel[k].id]

\* C20: the roots, and the children of every node, are in the order the
\* flat input list has them.
C20_InputOrderKept ==
  last.op = "getCommentsByArticle" =>
    /\ last.roots =
         InputWhere(LAMBDA c : c.parentCommentId = NullId \/ c.parentCommentId \notin InputIds)
    /\ \A p \in InputIds :
         last.children[p] = InputWhere(LAMBDA c : c.parentCommentId = p)

\* the thread 1 <- {2, 3}, 2 <- 4 read in the order 1, 2, 3, 4
C20_Witness ==
  /\ last.op = "getCommentsByArticle"
  /\ [k \in 1..Len(last.input) |-> <<last.input[k].id, last.input[k].parentCommentId>>]
       = <<(<<1, NullId>>), (<<2, 1>>), (<<3, 1>>), (<<4, 2>>)>>
  /\ last.roots = <<1>>
  /\ last.children[1] = <<2, 3>>
  /\ last.children[2] = <<4>>

\* C21: a redacted comment keeps its row with the content '[deleted]', and
\* getCommentsByArticle lists it for every role, with its listed replies as
\* its children.
C21_RedactedStillListed ==
  last.op = "getCommentsByArticle" =>
    \A i \in DOMAIN comments :
      (comments[i].articleId = last.articleId /\ comments[i].isDeleted) =>
        /\ comments[i].content = Redacted
        /\ i \in InputIds
        /\ \A k \in 1..Len(last.input) :
             last.input[k].parentCommentId = i =>
               last.input[k].id \in Range(last.children[i])

\* the article can be commented on by the caller of the last createComment
Commentable(articleId, userId) ==
  /\ articleId \in DOMAIN articles
  /\ ~articles[articleId].isDeleted
  /\ (articles[articleId].isPublished \/ IsAdminRole(RoleOfUser[userId]))

\* C22: a reply to a redacted comment is rejected and stores nothing; a reply
\* to a live comment of the article is stored, whatever the state of the
\* parent's own ancestors.
C22_NoReplyToRedacted ==
  [][(/\ last'.op = "createComment"
      /\ Commentable(last'.articleId, last'.userId)
      /\ last'.dto.parentCommentId \in DOMAIN comments
      /\ comments[last'.dto.parentCommentId].articleId = last'.articleId)
     => IF comments[last'.dto.parentCommentId].isDeleted
          THEN /\ ~last'.success
               /\ last'.error = ParentDeleted
               /\ comments' = comments
          ELSE /\ last'.success
               /\ Len(comments') = Len(comments) + 1
               /\ comments'[Len(comments')].parentCommentId = last'.dto.parentCommentId
               /\ \A i \in DOMAIN comments : comments'[i] = comments[i]]_vars

\* a reply to redacted comment 1 is refused while the table holds a reply
\* to the live comment 2, whose own parent is the redacted comment 1
C22_Witness ==
  /\ last.op = "createComment"
  /\ last.error = ParentDeleted
  /\ last.dto.parentCommentId = 1
  /\ Len(comments) >= 3
  /\ comments[1].isDeleted
  /\ comments[2].parentCommentId = 1 /\ ~comments[2].isDeleted
  /\ comments[3].parentCommentId = 2

\* C23: no article in an answer lists a soft-deleted tag, a stale join row
\* to such a tag notwithstanding.
C23_NoDeletedTagListed ==
  last.op \in {"getArticleById", "getArticleBySlug"} =>
    \A k \in 1..Len(last.items) :
      \A t \in last.items[k].tags : ~tags[t].isDeleted

\* C24: updateArticle, softDeleteArticle and restoreArticle on an existing
\* article, called by someone who is neither its author nor ADMIN/SUPERADMIN,
\* answer access denied whether the article is soft-deleted or not.
C24_StrangerAlwaysDenied ==
  (/\ last.op \in MutationOps
   /\ last.articleId \in DOMAIN articles
   /\ articles[last.articleId].authorId # last.userId
   /\ last.role \notin {ADMIN, SUPERADMIN})
  => (~last.success /\ last.error = AccessDenied)

\* the articles hidden from the public: unpublished or soft-deleted
HiddenIds == {i \in DOMAIN articles : ~articles[i].isPublished \/ articles[i].isDeleted}

\* the article table without the rows H
Without(H) == [i \in DOMAIN articles \ H |-> articles[i]]

\* C25: the by-slug lookup of a USER caller answers the same on every store
\* that differs from the present one only in hidden articles, so a slug of a
\* hidden article and a slug of no article get the same failure.
C25_HiddenLikeAbsent ==
  (last.op = "getArticleBySlug" /\ last.role = USER) =>
    \A H \in SUBSET HiddenIds :
      LET other == BySlugIn(Without(H), last.slug, last.role, last.userId)
      IN /\ other.success = last.success
         /\ other.error = last.error
         /\ other.items = last.items

\* the public lookup of the slug of a draft and, in the same store, a
\* published article that the lookup would return
C25_Witness ==
  /\ last.op = "getArticleBySlug"
  /\ last.role = USER /\ last.userId = ""
  /\ ~last.success
  /\ \E i \in HiddenIds : articles[i].slug = last.slug
  /\ \E j \in DOMAIN articles : j \notin HiddenIds

\* C26: hardDeleteArticle by a role other than ADMIN/SUPERADMIN answers
\* access denied and leaves the article rows, the join rows, the image rows
\* and the image files as they were.
C26_HardDeleteAdminOnly ==
  [][(last'.op = "hardDeleteArticle" /\ last'.role \notin {ADMIN, SUPERADMIN})
     => (/\ ~last'.success
         /\ last'.error = HardDeleteDenied
         /\ articles' = articles
         /\ articleTags' = articleTags
         /\ images' = images
         /\ files' = files)]_vars

\* an AUTHOR is refused for an article that has a tag and a stored image
C26_Witness ==
  /\ last.op = "hardDeleteArticle"
  /\ last.role = AUTHOR
  /\ last.error = HardDeleteDenied
  /\ last.articleId \in DOMAIN articles
  /\ JoinRows(last.articleId) # {}
  /\ \E i \in images : i.articleId = last.articleId /\ BuildImageFilePaths(i) \subseteq files

\* C27: an image file is deleted only when the row of its article is gone:
\* no step takes a file away and leaves that article row in the table.
C27_FilesReclaimedAfterRow ==
  [][\A f \in files \ files' : f[1] \notin DOMAIN articles']_vars

\* privilege of a role name: ADMIN and SUPERADMIN above AUTHOR above USER; a
\* name outside the enum gives nothing
Tier(name) ==
  IF name \in {ADMIN, SUPERADMIN} THEN 2 ELSE IF name = AUTHOR THEN 1 ELSE 0

\* the highest privilege among the roles held, 0 for none
HighestTier(roles) ==
  IF ~roles.defined \/ roles.list = <<>> THEN 0
  ELSE CHOOSE t \in 0..2 :
         /\ \E k \in 1..Len(roles.list) : Tier(roles.list[k]) = t
         /\ \A k \in 1..Len(roles.list) : Tier(roles.list[k]) <= t

ResolveOps == {"resolveRequesterRole", "getArticles.requesterRole", "getRequesterRoleByUserId"}

\* C28: the role every endpoint works with has the highest privilege among
\* the roles the caller holds, whatever their order; no roles, or an absent
\* role list, give USER.
C28_HighestRoleWins ==
  last.op \in ResolveOps =>
    /\ last.role \in UserRole
    /\ Tier(last.role) = HighestTier(last.roles)
    /\ (~last.roles.defined \/ last.roles.list = <<>>) => last.role = USER
    /\ last.role \in {AUTHOR, SUPERADMIN} => Includes(last.roles, last.role)

\* the list endpoint resolving a caller that lists USER and AUTHOR before ADMIN
C28_Witness ==
  /\ last.op = "getArticles.requesterRole"
  /\ last.roles = RolesOf(<<USER, AUTHOR, ADMIN>>)
  /\ last.role = ADMIN

\* every comment is a root, or a reply to an older comment of its article
ParentsWellFormed ==
  \A i \in DOMAIN comments :
    LET p == comments[i].parentCommentId
    IN p = NullId
       \/ (/\ p \in DOMAIN comments
           /\ p < i
           /\ comments[p].createdAt <= comments[i].createdAt
           /\ comments[p].articleId = comments[i].articleId)

\* the ancestors of comment i, nearest first, followed for at most n links
RECURSIVE Ancestors(_, _)
Ancestors(i, n) ==
  IF n = 0 \/ comments[i].parentCommentId = NullId THEN <<>>
  ELSE <<comments[i].parentCommentId>> \o Ancestors(comments[i].parentCommentId, n - 1)

\* the chain of parents of every comment ends at a root and does not come
\* back to the comment
ChainsEndAtRoot ==
  \A i \in DOMAIN comments :
    LET up == Ancestors(i, Len(comments))
    IN /\ i \notin Range(up)
       /\ Len(up) < Len(comments)
       /\ (up = <<>> \/ comments[up[Len(up)]].parentCommentId = NullId)

\* C29: createComment, updateComment and softDeleteComment leave every
\* comment with a parentCommentId that is null or names an older comment of
\* the same article, never change it, and so every chain of parents ends
\* at a root without meeting a comment twice.
C29_ParentLinksFormTree ==
  [][/\ ParentsWellFormed'
     /\ \A i \in DOMAIN comments :
          /\ i \in DOMAIN comments'
          /\ comments'[i].parentCommentId = comments[i].parentCommentId
          /\ comments'[i].articleId = comments[i].articleId
     /\ ChainsEndAtRoot']_vars

\* a chain of three comments, with refused attempts to move a comment, in a
\* table that also holds a redacted comment
C29_Witness ==
  /\ last.op = "updateComment"
  /\ last.error = ParentFrozen
  /\ Len(comments) = 3
  /\ comments[2].parentCommentId = 1
  /\ comments[3].parentCommentId = 2
  /\ \E i \in DOMAIN comments : comments[i].isDeleted

\* C30: no step stores a reply whose parent is redacted at that moment,
\* however a createComment and a softDeleteComment of the parent interleave.
C30_NoReplySavedUnderRedacted ==
  [][\A i \in DOMAIN comments' \ DOMAIN comments :
       comments'[i].parentCommentId # NullId =>
         ~comments[comments'[i].parentCommentId].isDeleted]_vars

====
